---- MODULE Spec2Model ----
(***************************************************************************)
(* Model of docvault/lambda/app.py: the Lambda entry point `handler`.      *)
(*                                                                         *)
(* The host runtime owns a number of execution slots.  In each slot it     *)
(* calls handler(event, context); the call evaluates the dict display      *)
(*   {"statusCode": 200, "body": json.dumps({"message": ...})}             *)
(* in three steps (build the inner dict, call json.dumps, build and return *)
(* the outer dict).  The caller then holds a reference to the returned     *)
(* dict, may overwrite its items, and finally drops it.                    *)
(*                                                                         *)
(* Python strings are sequences of one-character strings, Python values    *)
(* are tagged records, and json.dumps is computed character by character.  *)
(***************************************************************************)
EXTENDS Integers, Sequences, FiniteSets, TLC

\* ---------------------------------------------------------------- bounds
NumSlots == 2
MaxCalls == 2

Slots == 1..NumSlots
Addrs == 1..NumSlots

\* ------------------------------------------------------- string literals
MessageKey == <<"m","e","s","s","a","g","e">>
MessageText == <<"L","a","m","b","d","a"," ","r","u","n","n","i","n","g"," ","w","i","t","h"," ","O","C","R"," ","c","o","n","t","a","i","n","e","r">>
StatusCodeKey == <<"s","t","a","t","u","s","C","o","d","e">>
BodyKey == <<"b","o","d","y">>
StatusOK == 200

\* ---------------------------------------------------------- Python values
\* Every value has the same four fields; t is the type tag.
PyNone == [t |-> "NoneType", s |-> <<>>, n |-> 0, items |-> <<>>]
PyStr(chars) == [t |-> "str", s |-> chars, n |-> 0, items |-> <<>>]
PyInt(k) == [t |-> "int", s |-> <<>>, n |-> k, items |-> <<>>]
PyDict(kvs) == [t |-> "dict", s |-> <<>>, n |-> 0, items |-> kvs]
\* An instance of a class json does not know (the runtime's context object).
PyObject == [t |-> "object", s |-> <<>>, n |-> 0, items |-> <<>>]
\* Marks a name that is not bound / a heap cell that holds no object.
Unbound == [t |-> "unbound", s |-> <<>>, n |-> 0, items |-> <<>>]

Keys(d) == {d.items[k][1] : k \in 1..Len(d.items)}

HasKey(d, key) == \E k \in 1..Len(d.items) : d.items[k][1] = key

GetItem(d, key) == d.items[CHOOSE k \in 1..Len(d.items) : d.items[k][1] = key][2]

\* d[key] = val : replaces the value of an existing key, else appends.
SetItem(d, key, val) ==
    IF HasKey(d, key)
    THEN PyDict([k \in 1..Len(d.items) |->
                   IF d.items[k][1] = key THEN <<key, val>> ELSE d.items[k]])
    ELSE PyDict(Append(d.items, <<key, val>>))

\* ------------------------------------------------------------ json.dumps
Digit(k) == <<"0","1","2","3","4","5","6","7","8","9">>[k + 1]

RECURSIVE Digits(_)
Digits(k) == IF k < 10 THEN <<Digit(k)>> ELSE Append(Digits(k \div 10), Digit(k % 10))

IntText(k) == IF k < 0 THEN <<"-">> \o Digits(0 - k) ELSE Digits(k)

\* py_encode_basestring_ascii, restricted to the printable ASCII alphabet:
\* every quote and every backslash gets a backslash in front (a regular
\* expression substitution: a text without a match is returned as it is).
NeedsEscape(c) == c = "\"" \/ c = "\\"

RECURSIVE ReplaceFrom(_, _)
ReplaceFrom(chars, k) ==
    IF k > Len(chars) THEN <<>>
    ELSE (IF NeedsEscape(chars[k]) THEN <<"\\", chars[k]>> ELSE <<chars[k]>>)
         \o ReplaceFrom(chars, k + 1)

EscapeChars(chars) ==
    IF \A k \in 1..Len(chars) : ~NeedsEscape(chars[k]) THEN chars
    ELSE ReplaceFrom(chars, 1)

Quote(chars) == <<"\"">> \o EscapeChars(chars) \o <<"\"">>

\* Variant: the compact separators, (',', ':').
KeySeparator_compact == <<":">>

\* The default separators of json.dumps: (', ', ': ').
ItemSeparator == <<",", " ">>

KeySeparator == <<":", " ">>

\* The outcome of a call: the exception raised ("" for none) and the text.
Returned(chars) == [exc |-> "", text |-> chars]
Raised(name) == [exc |-> name, text |-> <<>>]

RECURSIVE dumps(_)
RECURSIVE dumpsItems(_, _)
dumpsItems(kvs, k) ==
    IF k > Len(kvs) THEN Returned(<<>>)
    ELSE LET val == dumps(kvs[k][2])
             rest == dumpsItems(kvs, k + 1)
         IN  IF val.exc # "" THEN val
             ELSE IF rest.exc # "" THEN rest
             ELSE Returned((IF k > 1 THEN ItemSeparator ELSE <<>>)
                           \o Quote(kvs[k][1]) \o KeySeparator \o val.text
                           \o rest.text)

dumps(obj) ==
    CASE obj.t = "NoneType" -> Returned(<<"n","u","l","l">>)
      [] obj.t = "str" -> Returned(Quote(obj.s))
      [] obj.t = "int" -> Returned(IntText(obj.n))
      [] obj.t = "dict" ->
            LET inner == dumpsItems(obj.items, 1)
            IN  IF inner.exc # "" THEN inner
                ELSE Returned(<<"{">> \o inner.text \o <<"}">>)
      [] OTHER -> Raised("TypeError")

\* ---------------------------------------------------------------- inputs
EmptyEvent == PyDict(<<>>)

NestedEvent ==
    PyDict(<< <<(<<"u","n","e","x","p","e","c","t","e","d">>), PyStr(<<"f","i","e","l","d">>)>>,
              <<(<<"n","e","s","t","e","d">>), PyDict(<< <<(<<"a">>), PyInt(1)>> >>)>> >>)

\* An empty record in the place of the runtime's context object.
EmptyContext == PyDict(<<>>)

\* The (event, context) pairs the host calls the handler with: both empty,
\* a record with unexpected and nested keys, and nothing at all.
Inputs == {<<EmptyEvent, EmptyContext>>, <<NestedEvent, PyObject>>, <<PyNone, PyNone>>}

\* The process environment: without and with a variable named message.
EmptyEnviron == PyDict(<<>>)
MessageEnviron == PyDict(<< <<MessageKey, PyStr(<<"h","i">>)>> >>)
Environs == {EmptyEnviron, MessageEnviron}

\* What a caller may store into a response it holds.
CallerStores == {<<StatusCodeKey, PyInt(500)>>, <<BodyKey, PyStr(<<>>)>>}

\* The names bound at module level by the imports and the def.
ModuleNames == {"json", "boto3", "os", "handler"}

\* ----------------------------------------------------------------- state
\* pc[i]        where the invocation of slot i stands
\* event[i], context[i]   the arguments the host passed (host-owned objects)
\* payload[i], body[i]    the values the handler's frame holds
\* loaded[i]    the names the handler's code has read so far
\* ret[i]       the address of the dict the call returned, heap its contents
\* result[i]    the value that dict had when it was returned
\* exc[i]       the exception that left the handler ("" for none)
\* environ      os.environ; environAt[i] its value when call i returned
\* globals      the names bound at module level
\* first        the first response returned in this process; ncalls the calls
VARIABLES pc, event, context, payload, body, loaded, ret, heap, result, exc,
          environ, environAt, globals, first, ncalls

vars == <<pc, event, context, payload, body, loaded, ret, heap, result, exc,
          environ, environAt, globals, first, ncalls>>

Init ==
    /\ pc = [i \in Slots |-> "idle"]
    /\ event = [i \in Slots |-> PyNone]
    /\ context = [i \in Slots |-> PyNone]
    /\ payload = [i \in Slots |-> Unbound]
    /\ body = [i \in Slots |-> Unbound]
    /\ loaded = [i \in Slots |-> {}]
    /\ ret = [i \in Slots |-> 0]
    /\ heap = [a \in Addrs |-> Unbound]
    /\ result = [i \in Slots |-> Unbound]
    /\ exc = [i \in Slots |-> ""]
    /\ environ \in Environs
    /\ environAt = [i \in Slots |-> EmptyEnviron]
    /\ globals = ModuleNames
    /\ first = Unbound
    /\ ncalls = 0

\* Variant: one module-level dict serves as every call's response.
NewAddr_shared(h) == 1

\* The address of a new object: the lowest cell that holds none.
NewAddr(h) ==
    CHOOSE a \in Addrs : h[a] = Unbound /\ \A b \in Addrs : h[b] = Unbound => a <= b

\* --------------------------------------------------------------- actions
\* The host calls handler(ev, ctx) in slot i.
Invoke(i, ev, ctx) ==
    /\ pc[i] = "idle"
    /\ ncalls < MaxCalls
    /\ pc' = [pc EXCEPT ![i] = "invoked"]
    /\ event' = [event EXCEPT ![i] = ev]
    /\ context' = [context EXCEPT ![i] = ctx]
    /\ ncalls' = ncalls + 1
    /\ UNCHANGED <<payload, body, loaded, ret, heap, result, exc, environ,
                   environAt, globals, first>>

\* Variant: the payload is built after reading context.aws_request_id,
\* which an absent context does not have.
BuildPayload_requestId(i) ==
    /\ pc[i] = "invoked"
    /\ IF context[i].t = "object"
       THEN /\ payload' = [payload EXCEPT ![i] = PyDict(<< <<MessageKey, PyStr(MessageText)>> >>)]
            /\ pc' = [pc EXCEPT ![i] = "built"]
            /\ UNCHANGED exc
       ELSE /\ exc' = [exc EXCEPT ![i] = "AttributeError"]
            /\ pc' = [pc EXCEPT ![i] = "raised"]
            /\ UNCHANGED payload
    /\ UNCHANGED <<event, context, body, loaded, ret, heap, result,
                   environ, environAt, globals, first, ncalls>>

\* Variant: a call that is not the first of its process marks the message.
BuildPayload_warm(i) ==
    /\ pc[i] = "invoked"
    /\ payload' = [payload EXCEPT ![i] =
          PyDict(<< <<MessageKey,
                      PyStr(IF first = Unbound THEN MessageText
                            ELSE MessageText \o <<" ", "(", "w", "a", "r", "m", ")">>)>> >>)]
    /\ pc' = [pc EXCEPT ![i] = "built"]
    /\ UNCHANGED <<event, context, body, loaded, ret, heap, result, exc,
                   environ, environAt, globals, first, ncalls>>

\* Variant: os.environ.get("message", <the text>) supplies the message.
BuildPayload_environ(i) ==
    /\ pc[i] = "invoked"
    /\ payload' = [payload EXCEPT ![i] =
          PyDict(<< <<MessageKey,
                      IF HasKey(environ, MessageKey) THEN GetItem(environ, MessageKey)
                      ELSE PyStr(MessageText)>> >>)]
    /\ loaded' = [loaded EXCEPT ![i] = @ \cup {"os"}]
    /\ pc' = [pc EXCEPT ![i] = "built"]
    /\ UNCHANGED <<event, context, body, ret, heap, result, exc,
                   environ, environAt, globals, first, ncalls>>

\* {"message": "Lambda running with OCR container"}: a display of constants.
BuildPayload(i) ==
    /\ pc[i] = "invoked"
    /\ payload' = [payload EXCEPT ![i] = PyDict(<< <<MessageKey, PyStr(MessageText)>> >>)]
    /\ pc' = [pc EXCEPT ![i] = "built"]
    /\ UNCHANGED <<event, context, body, loaded, ret, heap, result, exc,
                   environ, environAt, globals, first, ncalls>>

\* Variant: the call waits while another invocation is at the same step.
Dumps_wait(i) ==
    /\ pc[i] = "built"
    /\ \A j \in Slots \ {i} : pc[j] # "built"
    /\ loaded' = [loaded EXCEPT ![i] = @ \cup {"json"}]
    /\ body' = [body EXCEPT ![i] = PyStr(dumps(payload[i]).text)]
    /\ pc' = [pc EXCEPT ![i] = "dumped"]
    /\ UNCHANGED <<event, context, payload, ret, heap, result, exc, environ,
                   environAt, globals, first, ncalls>>

\* json.dumps(<payload>): the text, or the exception leaves the handler.
Dumps(i) ==
    /\ pc[i] = "built"
    /\ loaded' = [loaded EXCEPT ![i] = @ \cup {"json"}]
    /\ \E out \in {dumps(payload[i])} :
           IF out.exc = ""
           THEN /\ body' = [body EXCEPT ![i] = PyStr(out.text)]
                /\ pc' = [pc EXCEPT ![i] = "dumped"]
                /\ UNCHANGED <<exc, payload>>
           ELSE /\ exc' = [exc EXCEPT ![i] = out.exc]
                /\ pc' = [pc EXCEPT ![i] = "raised"]
                /\ payload' = [payload EXCEPT ![i] = Unbound]
                /\ UNCHANGED body
    /\ UNCHANGED <<event, context, ret, heap, result, environ, environAt,
                   globals, first, ncalls>>

\* Variant: the payload itself, not its text, becomes the body.
Return_rawBody(i) ==
    /\ pc[i] = "dumped"
    /\ LET a == NewAddr(heap)
           response == PyDict(<< <<StatusCodeKey, PyInt(StatusOK)>>,
                                 <<BodyKey, payload[i]>> >>)
       IN  /\ heap' = [heap EXCEPT ![a] = response]
           /\ ret' = [ret EXCEPT ![i] = a]
           /\ result' = [result EXCEPT ![i] = response]
           /\ first' = IF first = Unbound THEN response ELSE first
    /\ payload' = [payload EXCEPT ![i] = Unbound]
    /\ body' = [body EXCEPT ![i] = Unbound]
    /\ environAt' = [environAt EXCEPT ![i] = environ]
    /\ pc' = [pc EXCEPT ![i] = "returned"]
    /\ UNCHANGED <<event, context, loaded, exc, environ, globals, ncalls>>

\* Variant: the handler empties the event record before it returns.
Return_clearEvent(i) ==
    /\ pc[i] = "dumped"
    /\ LET a == NewAddr(heap)
           response == PyDict(<< <<StatusCodeKey, PyInt(StatusOK)>>,
                                 <<BodyKey, body[i]>> >>)
       IN  /\ heap' = [heap EXCEPT ![a] = response]
           /\ ret' = [ret EXCEPT ![i] = a]
           /\ result' = [result EXCEPT ![i] = response]
           /\ first' = IF first = Unbound THEN response ELSE first
    /\ event' = [event EXCEPT ![i] = IF @.t = "dict" THEN PyDict(<<>>) ELSE @]
    /\ payload' = [payload EXCEPT ![i] = Unbound]
    /\ body' = [body EXCEPT ![i] = Unbound]
    /\ environAt' = [environAt EXCEPT ![i] = environ]
    /\ pc' = [pc EXCEPT ![i] = "returned"]
    /\ UNCHANGED <<context, loaded, exc, environ, globals, ncalls>>

\* Variant: payload and body are module-level names, cleared by whichever
\* invocation returns.
Return_sharedFrame(i) ==
    /\ pc[i] = "dumped"
    /\ LET a == NewAddr(heap)
           response == PyDict(<< <<StatusCodeKey, PyInt(StatusOK)>>,
                                 <<BodyKey, body[i]>> >>)
       IN  /\ heap' = [heap EXCEPT ![a] = response]
           /\ ret' = [ret EXCEPT ![i] = a]
           /\ result' = [result EXCEPT ![i] = response]
           /\ first' = IF first = Unbound THEN response ELSE first
    /\ payload' = [j \in Slots |-> Unbound]
    /\ body' = [j \in Slots |-> Unbound]
    /\ environAt' = [environAt EXCEPT ![i] = environ]
    /\ pc' = [pc EXCEPT ![i] = "returned"]
    /\ UNCHANGED <<event, context, loaded, exc, environ, globals, ncalls>>

\* return {"statusCode": 200, "body": <body>}: a new dict; the frame ends.
Return(i) ==
    /\ pc[i] = "dumped"
    /\ LET a == NewAddr(heap)
           response == PyDict(<< <<StatusCodeKey, PyInt(StatusOK)>>,
                                 <<BodyKey, body[i]>> >>)
       IN  /\ heap' = [heap EXCEPT ![a] = response]
           /\ ret' = [ret EXCEPT ![i] = a]
           /\ result' = [result EXCEPT ![i] = response]
           /\ first' = IF first = Unbound THEN response ELSE first
    /\ payload' = [payload EXCEPT ![i] = Unbound]
    /\ body' = [body EXCEPT ![i] = Unbound]
    /\ environAt' = [environAt EXCEPT ![i] = environ]
    /\ pc' = [pc EXCEPT ![i] = "returned"]
    /\ UNCHANGED <<event, context, loaded, exc, environ, globals, ncalls>>

\* The host takes the response and discards the event and the context.
Discard(i) ==
    /\ pc[i] = "returned"
    /\ pc' = [pc EXCEPT ![i] = "held"]
    /\ event' = [event EXCEPT ![i] = PyNone]
    /\ context' = [context EXCEPT ![i] = PyNone]
    /\ environAt' = [environAt EXCEPT ![i] = EmptyEnviron]
    /\ UNCHANGED <<payload, body, loaded, ret, heap, result, exc, environ,
                   globals, first, ncalls>>

\* The caller overwrites an item of the response it holds.
Mutate(i, store) ==
    /\ pc[i] = "held"
    /\ GetItem(heap[ret[i]], store[1]) # store[2]
    /\ heap' = [heap EXCEPT ![ret[i]] = SetItem(@, store[1], store[2])]
    /\ UNCHANGED <<pc, event, context, payload, body, loaded, ret, result, exc,
                   environ, environAt, globals, first, ncalls>>

\* The host is done with the invocation of slot i and drops what it holds.
Release(i) ==
    /\ pc[i] \in {"held", "raised"}
    /\ heap' = IF ret[i] = 0 THEN heap ELSE [heap EXCEPT ![ret[i]] = Unbound]
    /\ pc' = [pc EXCEPT ![i] = "idle"]
    /\ event' = [event EXCEPT ![i] = PyNone]
    /\ context' = [context EXCEPT ![i] = PyNone]
    /\ loaded' = [loaded EXCEPT ![i] = {}]
    /\ ret' = [ret EXCEPT ![i] = 0]
    /\ result' = [result EXCEPT ![i] = Unbound]
    /\ exc' = [exc EXCEPT ![i] = ""]
    /\ UNCHANGED <<payload, body, environ, environAt, globals, first, ncalls>>

\* The process environment changes between or during invocations.
SetEnviron(env) ==
    /\ env # environ
    /\ environ' = env
    /\ UNCHANGED <<pc, event, context, payload, body, loaded, ret, heap, result,
                   exc, environAt, globals, first, ncalls>>

\* A step of the handler's own code in slot i.
HandlerStep(i) == BuildPayload(i) \/ Dumps(i) \/ Return(i)

Next ==
    \/ \E i \in Slots, in \in Inputs : Invoke(i, in[1], in[2])
    \/ \E i \in Slots : BuildPayload(i)
    \/ \E i \in Slots : Dumps(i)
    \/ \E i \in Slots : Return(i)
    \/ \E i \in Slots : Discard(i)
    \/ \E i \in Slots, store \in CallerStores : Mutate(i, store)
    \/ \E i \in Slots : Release(i)
    \/ \E env \in Environs : SetEnviron(env)

Spec == Init /\ [][Next]_vars

\* The interpreter runs every handler it has started to its end: each
\* handler step that stays possible is eventually taken.
FairSpec == Spec /\ \A i \in Slots : WF_vars(HandlerStep(i))

\* ------------------------------------------------------------ json.loads
\* Reading a JSON text back: objects, strings, null and unsigned integers,
\* with blanks between the tokens.  A parse yields ok, the value and the
\* position after it.
At(s, p) == IF p \in 1..Len(s) THEN s[p] ELSE ""

SkipBlanks(s, p) ==
    CHOOSE k \in p..(Len(s) + 1) : At(s, k) # " " /\ \A j \in p..(k - 1) : s[j] = " "

Parsed(val, next) == [ok |-> TRUE, val |-> val, next |-> next]
NoParse == [ok |-> FALSE, val |-> Unbound, next |-> 0]

\* The characters from p up to the closing quote, escapes resolved.
RECURSIVE UnescapeFrom(_, _, _)
UnescapeFrom(s, p, acc) ==
    IF p > Len(s) THEN NoParse
    ELSE IF s[p] = "\"" THEN Parsed(PyStr(acc), p + 1)
    ELSE IF s[p] = "\\"
         THEN IF At(s, p + 1) \in {"\"", "\\"}
              THEN UnescapeFrom(s, p + 2, Append(acc, s[p + 1]))
              ELSE NoParse
    ELSE UnescapeFrom(s, p + 1, Append(acc, s[p]))

\* s[p] is the opening quote.
ParseString(s, p) ==
    IF At(s, p) # "\"" \/ \A k \in (p + 1)..Len(s) : s[k] # "\"" THEN NoParse
    ELSE LET e == CHOOSE k \in (p + 1)..Len(s) :
                      s[k] = "\"" /\ \A j \in (p + 1)..(k - 1) : s[j] # "\""
         IN  IF \A j \in (p + 1)..(e - 1) : s[j] # "\\"
             THEN Parsed(PyStr(SubSeq(s, p + 1, e - 1)), e + 1)
             ELSE UnescapeFrom(s, p + 1, <<>>)

IsDigit(c) == c \in {"0","1","2","3","4","5","6","7","8","9"}
DigitValue(c) == CHOOSE k \in 0..9 : Digit(k) = c

RECURSIVE ParseDigits(_, _, _)
ParseDigits(s, p, acc) ==
    IF IsDigit(At(s, p)) THEN ParseDigits(s, p + 1, 10 * acc + DigitValue(s[p]))
    ELSE Parsed(PyInt(acc), p)

RECURSIVE ParseValue(_, _)
RECURSIVE ParseMembers(_, _, _)
ParseMembers(s, p, acc) ==
    LET key == ParseString(s, p)
        colon == SkipBlanks(s, key.next)
        val == ParseValue(s, SkipBlanks(s, colon + 1))
        after == SkipBlanks(s, val.next)
    IN  IF ~key.ok THEN NoParse
        ELSE IF At(s, colon) # ":" THEN NoParse
        ELSE IF ~val.ok THEN NoParse
        ELSE IF At(s, after) = "}"
             THEN Parsed(SetItem(acc, key.val.s, val.val), after + 1)
        ELSE IF At(s, after) = ","
             THEN ParseMembers(s, SkipBlanks(s, after + 1),
                               SetItem(acc, key.val.s, val.val))
        ELSE NoParse

ParseValue(s, p) ==
    CASE At(s, p) = "\"" -> ParseString(s, p)
      [] At(s, p) = "{" ->
            LET q == SkipBlanks(s, p + 1)
            IN  IF At(s, q) = "}" THEN Parsed(PyDict(<<>>), q + 1)
                ELSE ParseMembers(s, q, PyDict(<<>>))
      [] At(s, p) = "n" ->
            IF p + 3 <= Len(s) /\ SubSeq(s, p, p + 3) = <<"n","u","l","l">>
            THEN Parsed(PyNone, p + 4) ELSE NoParse
      [] IsDigit(At(s, p)) -> ParseDigits(s, p, 0)
      [] OTHER -> NoParse

loads(s) ==
    LET v == ParseValue(s, SkipBlanks(s, 1))
    IN  IF v.ok /\ SkipBlanks(s, v.next) = Len(s) + 1 THEN v ELSE NoParse

\* ---------------------------------------------------------------- claims
\* The response of the specification, written out character by character.
ReferenceBody == <<"{","\"","m","e","s","s","a","g","e","\"",":"," ","\"","L","a","m","b","d","a"," ","r","u","n","n","i","n","g"," ","w","i","t","h"," ","O","C","R"," ","c","o","n","t","a","i","n","e","r","\"","}">>

ReferenceResponse ==
    PyDict(<< <<StatusCodeKey, PyInt(200)>>, <<BodyKey, PyStr(ReferenceBody)>> >>)

Running == {"invoked", "built", "dumped"}

\* C1: whatever the event and the context, handler returns statusCode 200
\* and the body {"message": "Lambda running with OCR container"}, with one
\* blank after the colon: the returned value is the reference response.
C1_FixedResponse ==
    \A i \in Slots : pc[i] = "returned" => result[i] = ReferenceResponse

\* Two calls have returned at once, one given a null event and no context,
\* the other a record with unexpected and nested keys.
C1_Witness ==
    \E i, j \in Slots :
        /\ pc[i] = "returned" /\ event[i] = PyNone /\ context[i] = PyNone
        /\ pc[j] = "returned" /\ event[j] = NestedEvent
        /\ result[i] = ReferenceResponse /\ result[j] = ReferenceResponse

\* C2: no invocation ends in an exception or in a status other than 200,
\* also when the context is absent.
C2_NeverRaises ==
    \A i \in Slots :
        /\ pc[i] # "raised"
        /\ exc[i] = ""
        /\ pc[i] = "returned" =>
              /\ HasKey(result[i], StatusCodeKey)
              /\ GetItem(result[i], StatusCodeKey) = PyInt(200)

\* A call without a context has returned normally.
C2_Witness ==
    \E i \in Slots :
        pc[i] = "returned" /\ context[i] = PyNone /\ exc[i] = "" /\ ncalls > 0

\* C3: the response has exactly the two items statusCode and body; body is
\* a string, not a record; read back as JSON it is an object with the one
\* key message and the fixed text, so statusCode is not inside it.
C3_Envelope ==
    \A i \in Slots : pc[i] = "returned" =>
        /\ result[i].t = "dict"
        /\ Len(result[i].items) = 2
        /\ Keys(result[i]) = {StatusCodeKey, BodyKey}
        /\ GetItem(result[i], BodyKey).t = "str"
        /\ LET parsed == loads(GetItem(result[i], BodyKey).s)
           IN  /\ parsed.ok
               /\ parsed.val.t = "dict"
               /\ Len(parsed.val.items) = 1
               /\ Keys(parsed.val) = {MessageKey}
               /\ GetItem(parsed.val, MessageKey) = PyStr(MessageText)
               /\ ~HasKey(parsed.val, StatusCodeKey)

\* A returned response whose body is a text that reads back as an object.
C3_Witness ==
    \E i \in Slots :
        /\ pc[i] = "returned"
        /\ GetItem(result[i], BodyKey).t = "str"
        /\ loads(GetItem(result[i], BodyKey).s).ok
        /\ loads(GetItem(result[i], BodyKey).s).val.t = "dict"

\* C4: every call returns what the first call of the process returned,
\* however many calls came before it.
C4_SameAsFirst ==
    \A i \in Slots : pc[i] \in {"returned", "held"} => result[i] = first

\* The last call the bound allows has returned while an earlier call with
\* the same arguments is still at hand.
C4_Witness ==
    \E i, j \in Slots :
        /\ i # j /\ ncalls = MaxCalls
        /\ pc[i] = "returned" /\ pc[j] = "returned"
        /\ event[i] = event[j] /\ context[i] = context[j]
        /\ result[i] = first /\ result[j] = first

\* C5: two calls that differ in the event, the context or the process
\* environment return equal responses, and the handler reads neither of
\* its arguments nor the environment.
C5_Noninterference ==
    /\ \A i, j \in Slots :
          (/\ pc[i] = "returned" /\ pc[j] = "returned"
           /\ \/ event[i] # event[j]
              \/ context[i] # context[j]
              \/ environAt[i] # environAt[j])
          => result[i] = result[j]
    /\ \A i \in Slots : loaded[i] \cap {"event", "context", "os"} = {}

\* Two calls that differ in all three have returned.
C5_Witness ==
    \E i, j \in Slots :
        /\ pc[i] = "returned" /\ pc[j] = "returned"
        /\ event[i] = EmptyEvent /\ event[j] = NestedEvent
        /\ context[i] # context[j]
        /\ environAt[i] # environAt[j]
        /\ result[i] = result[j]

\* C6: a return makes a new response: it holds the fixed items whatever
\* callers did to earlier responses, and it leaves every response that was
\* returned before as its holder has it.
C6_FreshResponse ==
    [][\A i \in Slots : (pc[i] = "dumped" /\ pc'[i] = "returned") =>
          /\ heap[ret'[i]] = Unbound
          /\ heap'[ret'[i]] = ReferenceResponse
          /\ \A j \in Slots \ {i} : ret'[j] # ret'[i]
          /\ \A a \in Addrs : heap[a] # Unbound => heap'[a] = heap[a]]_vars

\* A caller has overwritten the status and the body of its response, and
\* another call has returned the fixed response all the same.
C6_Witness ==
    \E i, j \in Slots :
        /\ pc[i] = "held"
        /\ GetItem(heap[ret[i]], StatusCodeKey) = PyInt(500)
        /\ GetItem(heap[ret[i]], BodyKey) = PyStr(<<>>)
        /\ pc[j] = "returned" /\ ret[j] # ret[i]
        /\ heap[ret[j]] = ReferenceResponse

\* C7: a step of the handler leaves the event, the context, the process
\* environment and the module's names as they were.
C7_Frame ==
    [][(\E i \in Slots : pc[i] \in Running /\ pc'[i] # pc[i]) =>
          /\ event' = event
          /\ context' = context
          /\ environ' = environ
          /\ globals' = globals]_vars

\* A call given the record with nested keys has returned and the record
\* is what it was.
C7_Witness ==
    \E i \in Slots :
        /\ pc[i] = "returned" /\ event[i] = NestedEvent /\ context[i] = PyObject
        /\ globals = ModuleNames

\* What one call alone builds, step by step.
AlonePayload == PyDict(<< <<MessageKey, PyStr(MessageText)>> >>)
AloneBody == PyStr(dumps(AlonePayload).text)
AloneResponse == PyDict(<< <<StatusCodeKey, PyInt(StatusOK)>>, <<BodyKey, AloneBody>> >>)

\* C8: under every interleaving each invocation holds, at each of its
\* steps, what it would hold when run alone, and returns that response.
C8_Independent ==
    \A i \in Slots :
        /\ pc[i] = "built" => payload[i] = AlonePayload
        /\ pc[i] = "dumped" => payload[i] = AlonePayload /\ body[i] = AloneBody
        /\ pc[i] = "returned" => result[i] = AloneResponse
        /\ pc[i] \in {"invoked", "idle", "returned", "held"} =>
              payload[i] = Unbound /\ body[i] = Unbound

\* Two invocations are between their steps at once, each holding what it
\* would hold alone.
C8_Witness ==
    \E i, j \in Slots :
        /\ i # j
        /\ pc[i] = "dumped" /\ body[i] = AloneBody
        /\ pc[j] = "built" /\ payload[j] = AlonePayload

\* C9: an invocation that was started returns.
C9_Terminates ==
    \A i \in Slots : (pc[i] = "invoked") ~> (pc[i] = "returned")

\* The calls the bound allows were all made, one has returned and another
\* is about to.
C9_Witness ==
    \E i, j \in Slots :
        ncalls = MaxCalls /\ pc[i] = "returned" /\ pc[j] = "dumped"

====
